---- MODULE Spec2Model ----
(***************************************************************************)
(* Model of the AirBnB console: the FileStorage registry                   *)
(* (models/engine/file_storage.py), the command objects                    *)
(* (console_commands.py) and the HBNBCommand dispatcher (console.py).      *)
(*                                                                         *)
(* One input line is handled by cmd.Cmd.cmdloop as                         *)
(*     precmd(line) ; onecmd(line) -> do_xxx / default / emptyline ;       *)
(*     postcmd(stop, line)                                                 *)
(* and the model has one action per hook or handler.                       *)
(***************************************************************************)
EXTENDS Integers, Sequences, FiniteSets, TLC

VARIABLES
    objects,        \* FileStorage.__objects : key -> entity
    doc,            \* the JSON document file.json
    tokens,         \* the __tokens dict of every command class
    current_update, \* UpdateCommand.__current_update_command
    current_cmd,    \* HBNBCommand.__current_cmd
    line,           \* the line being handled by the command loop
    pc,             \* position of the command loop
    out,            \* what was printed while handling the current line
    raised,         \* the exception that escaped the command loop, or ""
    executed,       \* the command whose execute() ran for this line, with
                    \* the slots it saw
    next_id,        \* number of ids handed out by uuid4()
    now,            \* the clock read by datetime.now()
    nlines,         \* number of lines read so far
    ret,            \* what the last direct call of a FileStorage method
                    \* returned
    owned,          \* for two command objects of every class: the object
                    \* called last and the tokens that the calls of
                    \* set_tokens and reset_tokens on each object left
    history,        \* HBNBCommand.__history: the command lines kept
    history_file    \* the lines of .airbnb_cmd_history.txt, if it exists

vars == <<objects, doc, tokens, current_update, current_cmd, line, pc, out,
          raised, executed, next_id, now, nlines, ret, owned, history,
          history_file>>

(***************************************************************************)
(* Bounds of the model.                                                    *)
(***************************************************************************)
MaxLines == 3
MaxCreated == 2

(***************************************************************************)
(* Python values.  Every value is a record of the same shape: t is the     *)
(* Python type, s the text of a str, n the number of an int or the tick    *)
(* of a datetime, d the items of a dict in insertion order.                *)
(***************************************************************************)
None == [t |-> "none", s |-> "", n |-> 0, d |-> <<>>]
StrV(x) == [t |-> "str", s |-> x, n |-> 0, d |-> <<>>]
IntV(x) == [t |-> "int", s |-> "", n |-> x, d |-> <<>>]
DateV(x) == [t |-> "datetime", s |-> "", n |-> x, d |-> <<>>]
IsoV(x) == [t |-> "isostr", s |-> "", n |-> x, d |-> <<>>]
DictV(items) == [t |-> "dict", s |-> "", n |-> 0, d |-> items]
Item(k, v) == [k |-> k, v |-> v]
\* an attribute the instance does not have
Absent == [t |-> "absent", s |-> "", n |-> 0, d |-> <<>>]

\* Python truth value of a token (`if not x`)
Truthy(v) ==
    CASE v.t = "none" -> FALSE
      [] v.t = "str" -> v.s # ""
      [] v.t = "int" -> v.n # 0
      [] v.t = "dict" -> v.d # <<>>
      [] OTHER -> TRUE

\* decimal text of the integers the model uses
IntText ==
    (0 :> "0") @@ (1 :> "1") @@ (22 :> "22") @@ (25 :> "25") @@ (30 :> "30")
\* int(text): the texts that parse, anything else raises ValueError
Numerals == {IntText[i] : i \in DOMAIN IntText}
int(text) == CHOOSE i \in DOMAIN IntText : IntText[i] = text

\* str(value), as used by the f-string of _get_obj_key
str(v) ==
    CASE v.t = "str" -> v.s
      [] v.t = "int" -> IntText[v.n]
      [] v.t = "none" -> "None"
      [] v.t = "dict" -> "{dict}"
      [] OTHER -> "<object>"

(***************************************************************************)
(* Entities (models/base_model.py and its subclasses).  An entity is its   *)
(* class name and its instance __dict__; every entity has the methods of   *)
(* BaseModel.                                                              *)
(***************************************************************************)
\* the word shlex.split makes of the dict literal {'age':30}; as any other
\* text, it can name an attribute
DictWord == "{age:30}"
FieldNames == {"id", "created_at", "updated_at", "name", "age", DictWord}
Methods == {"save", "to_dict"}
Method == [t |-> "method", s |-> "", n |-> 0, d |-> <<>>]
NoFields == [a \in FieldNames |-> Absent]

\* uuid4(): the k-th id handed out
Uuid == <<"id1", "id2", "id3", "id4">>

\* BaseModel.__init__ without kwargs: a fresh id, both timestamps now
BaseModel(cls, id, t) ==
    [cls |-> cls,
     f |-> [NoFields EXCEPT !["id"] = StrV(id),
                            !["created_at"] = DateV(t),
                            !["updated_at"] = DateV(t)]]

\* None where an entity is expected (what _deserialize returns for a record
\* it cannot resolve): type(None).__name__ is "NoneType"
NoneObj == [cls |-> "NoneType", f |-> NoFields]

\* BaseModel.__init__ with the kwargs of a serialized entity: the timestamps
\* are parsed from ISO format, every other entry except __class__ is set as
\* it is
BaseModel_kwargs(dictionary) ==
    [cls |-> dictionary.cls,
     f |-> [a \in FieldNames |->
               IF a \in {"created_at", "updated_at"}
                  /\ dictionary.f[a].t = "isostr"
               THEN DateV(dictionary.f[a].n)
               ELSE dictionary.f[a]]]

\* attributes every object has, and the names of the model that start with
\* an underscore
Dunders == {"__class__", "__dict__"}
UnderscoreNames == {"__class__", "__dict__"}
startswith_underscore(name) == name \in UnderscoreNames

\* hasattr finding every name
hasattr_always(obj, name) ==
    TRUE

hasattr(obj, name) ==
    \/ name \in Methods \cup Dunders
    \/ name \in FieldNames /\ obj.f[name] # Absent
getattr(obj, name) ==
    IF name \in Methods \cup Dunders THEN Method ELSE obj.f[name]
setattr(obj, name, value) == [obj EXCEPT !.f[name] = value]
\* callable finding no value callable
callable_never(v) ==
    FALSE

callable(v) ==
    v.t = "method"

\* BaseModel.to_dict: the instance __dict__ with the timestamps in ISO
\* format, plus __class__
to_dict(obj) ==
    [cls |-> obj.cls,
     f |-> [a \in FieldNames |->
               IF obj.f[a].t = "datetime" THEN IsoV(obj.f[a].n)
               ELSE obj.f[a]]]

(***************************************************************************)
(* FileStorage (models/engine/file_storage.py).  The operations work on a  *)
(* record S = [objects, doc, out, exc]: the store, the document, what has  *)
(* been printed and the exception raised so far ("" for none).             *)
(***************************************************************************)
MODELS == {"BaseModel", "User", "State", "City", "Amenity", "Place", "Review"}
get_models_names == MODELS

NoKey == [kind |-> "", id |-> ""]
_get_obj_key(model_name, _id) ==
    IF ~Truthy(model_name) \/ ~Truthy(_id) THEN NoKey
    ELSE [kind |-> str(model_name), id |-> str(_id)]

ClassDoesNotExist == "** class doesn't exist **"
NoInstanceFound == "** no instance found **"
ClassNameMissing == "** class name missing **"
InstanceIdMissing == "** instance id missing **"
AttributeNameMissing == "** attribute name missing **"
ValueMissing == "** value missing **"
UnknownSyntax == "*** Unknown syntax"

\* one printed line: a diagnostic (s), an id (s), a number (n), or the
\* string forms of a set of entities (e)
OutLine(t, s, n, e) == [t |-> t, s |-> s, n |-> n, e |-> e]
Diag(s) == OutLine("diag", s, 0, {})
\* a returned value has the shape of a printed one: an entity or None (t is
\* "obj" or "none"), a list of string forms ("list"), a number ("count")
NoRet == OutLine("none", "", 0, {})
\* print(p)
Say(S, p) == [S EXCEPT !.out = Append(@, p)]

\* FileStorage.get_model_class
get_model_class(S, model_name) ==
    IF model_name.t # "str" \/ model_name.s \notin get_models_names
    THEN [S |-> Say(S, Diag(ClassDoesNotExist)), found |-> FALSE, cls |-> ""]
    ELSE [S |-> S, found |-> TRUE, cls |-> model_name.s]

\* new without the test of the type of obj
new_any(S, obj) ==
    [S EXCEPT !.objects =
        (_get_obj_key(StrV(obj.cls), obj.f["id"]) :> obj) @@ @]

\* FileStorage.new
new(S, obj) ==
    IF obj.cls \notin MODELS THEN S
    ELSE [S EXCEPT !.objects =
             (_get_obj_key(StrV(obj.cls), obj.f["id"]) :> obj) @@ @]

\* json.dump followed by json.load, for one value: the keys of a JSON object
\* are text, so a dict comes back with str(key) for every key
RECURSIVE json(_)
json(v) ==
    IF v.t # "dict" THEN v
    ELSE DictV([i \in 1..Len(v.d) |->
                   Item(StrV(str(v.d[i].k)), json(v.d[i].v))])

\* the JSON object json.dump writes for the dict of an entity
json_dump(dictionary) ==
    [cls |-> dictionary.cls,
     f |-> [a \in FieldNames |-> json(dictionary.f[a])]]

\* FileStorage.save: the whole store is written in one pass; obj.to_dict()
\* raises AttributeError, before the file is opened, when obj is None
save(S) ==
    IF \E k \in DOMAIN S.objects : S.objects[k] = NoneObj
    THEN [S EXCEPT !.exc = "AttributeError"]
    ELSE [S EXCEPT !.doc =
             [state |-> "written",
              m |-> [k \in DOMAIN S.objects |->
                        json_dump(to_dict(S.objects[k]))]]]

\* FileStorage._deserialize: None for a record without __class__ or with an
\* unknown one, else model_class(**dictionary)
_deserialize(dictionary) ==
    IF dictionary.cls = "" THEN NoneObj
    ELSE IF dictionary.cls \notin get_models_names THEN NoneObj
    ELSE BaseModel_kwargs(dictionary)

\* reload treating a document it cannot decode as any other exception
reload_strict(S) ==
    IF S.doc.state = "missing" THEN S
    ELSE IF S.doc.state = "malformed"
    THEN [S EXCEPT !.exc = "JSONDecodeError"]
    ELSE [S EXCEPT !.objects =
             [k \in DOMAIN S.doc.m |-> _deserialize(S.doc.m[k])]]

\* FileStorage.reload: FileNotFoundError and JSONDecodeError are passed over;
\* otherwise every key of the document is kept, with what _deserialize
\* returns for its record, and get_model_class prints once for every record
\* whose __class__ is unknown
reload(S) ==
    IF S.doc.state \in {"missing", "malformed"} THEN S
    ELSE LET unknown == {k \in DOMAIN S.doc.m :
                            /\ S.doc.m[k].cls # ""
                            /\ S.doc.m[k].cls \notin get_models_names}
         IN [S EXCEPT !.objects =
                          [k \in DOMAIN S.doc.m |-> _deserialize(S.doc.m[k])],
                      !.out = @ \o [i \in 1..Cardinality(unknown) |->
                                       Diag(ClassDoesNotExist)]]

\* find_obj without the report of a key that is not in the store
find_obj_quiet(S, model_name, _id) ==
    IF model_name.t # "str" \/ model_name.s \notin get_models_names
       \/ ~Truthy(_id)
    THEN [S |-> S, found |-> FALSE, key |-> NoKey, obj |-> NoneObj]
    ELSE LET key == _get_obj_key(model_name, _id) IN
         IF key \notin DOMAIN S.objects
         THEN [S |-> S, found |-> FALSE, key |-> NoKey, obj |-> NoneObj]
         ELSE [S |-> S, found |-> S.objects[key] # NoneObj, key |-> key,
               obj |-> S.objects[key]]

\* FileStorage.find_obj: obj is what it returns (NoneObj for None), found
\* whether the callers' `if not obj` lets it through
find_obj(S, model_name, _id) ==
    IF model_name.t # "str" \/ model_name.s \notin get_models_names
       \/ ~Truthy(_id)
    THEN [S |-> S, found |-> FALSE, key |-> NoKey, obj |-> NoneObj]
    ELSE LET key == _get_obj_key(model_name, _id) IN
         IF key \notin DOMAIN S.objects
         THEN [S |-> Say(S, Diag(NoInstanceFound)), found |-> FALSE,
               key |-> NoKey, obj |-> NoneObj]
         ELSE [S |-> S, found |-> S.objects[key] # NoneObj, key |-> key,
               obj |-> S.objects[key]]

\* remove_obj without the save() after the deletion
remove_obj_unsaved(S, model_name, _id) ==
    LET r == find_obj(S, model_name, _id) IN
    IF ~r.found THEN r.S
    ELSE [r.S EXCEPT !.objects =
             [k \in DOMAIN @ \ {_get_obj_key(model_name, _id)} |-> @[k]]]

\* FileStorage.remove_obj
remove_obj(S, model_name, _id) ==
    LET r == find_obj(S, model_name, _id) IN
    IF ~r.found THEN r.S
    ELSE LET key == _get_obj_key(model_name, _id) IN
         save([r.S EXCEPT !.objects =
                  [k \in DOMAIN @ \ {key} |-> @[k]]])

\* find_all without the filter on the class of the entities
find_all_unfiltered(S, model_name) ==
    IF ~Truthy(model_name) THEN {S.objects[k] : k \in DOMAIN S.objects}
    ELSE IF model_name.t # "str" \/ model_name.s \notin get_models_names
    THEN {}
    ELSE {S.objects[k] : k \in DOMAIN S.objects}

\* FileStorage.find_all
find_all(S, model_name) ==
    IF ~Truthy(model_name) THEN {S.objects[k] : k \in DOMAIN S.objects}
    ELSE IF model_name.t # "str" \/ model_name.s \notin get_models_names
    THEN {}
    ELSE {S.objects[k] : k \in {x \in DOMAIN S.objects :
                                   S.objects[x].cls = model_name.s}}

\* _update_obj_attribute storing the raw value in an existing attribute,
\* without attribute_type(value)
_update_obj_attribute_raw(obj, attribute_name, value) ==
    IF obj = NoneObj \/ attribute_name.t # "str"
    THEN [obj |-> obj, exc |-> ""]
    ELSE IF ~hasattr(obj, attribute_name.s)
    THEN [obj |-> setattr(obj, attribute_name.s, value), exc |-> ""]
    ELSE IF \/ startswith_underscore(attribute_name.s)
            \/ callable(getattr(obj, attribute_name.s))
            \/ value.t \notin {"str", getattr(obj, attribute_name.s).t}
    THEN [obj |-> obj, exc |-> ""]
    ELSE [obj |-> setattr(obj, attribute_name.s, value), exc |-> ""]

\* FileStorage._update_obj_attribute: the entity after the call and the
\* exception the call raises ("" for none)
_update_obj_attribute(obj, attribute_name, value) ==
    IF obj = NoneObj \/ attribute_name.t # "str"
    THEN [obj |-> obj, exc |-> ""]
    ELSE IF ~hasattr(obj, attribute_name.s)
    THEN [obj |-> setattr(obj, attribute_name.s, value), exc |-> ""]
    ELSE LET attribute == getattr(obj, attribute_name.s)
             attribute_type == attribute.t
         IN
         IF startswith_underscore(attribute_name.s)
         THEN [obj |-> obj, exc |-> ""]
         ELSE IF callable(attribute) THEN [obj |-> obj, exc |-> ""]
         ELSE IF value.t \notin {"str", attribute_type}
         THEN [obj |-> obj, exc |-> ""]
         ELSE \* setattr(obj, attribute_name, attribute_type(value))
              CASE attribute_type = "str" ->
                     [obj |-> setattr(obj, attribute_name.s, value), exc |-> ""]
                [] attribute_type = "int" /\ value.t = "int" ->
                     [obj |-> setattr(obj, attribute_name.s, value), exc |-> ""]
                [] attribute_type = "int" /\ value.t = "str" ->
                     IF value.s \in Numerals
                     THEN [obj |-> setattr(obj, attribute_name.s,
                                           IntV(int(value.s))),
                           exc |-> ""]
                     ELSE [obj |-> obj, exc |-> "ValueError"]
                [] attribute_type = "dict" /\ value.t = "dict" ->
                     [obj |-> setattr(obj, attribute_name.s, value), exc |-> ""]
                [] attribute_type = "dict" /\ value.t = "str" ->
                     [obj |-> obj, exc |-> "ValueError"]
                [] OTHER -> \* datetime(value)
                     [obj |-> obj, exc |-> "TypeError"]

\* FileStorage.update_obj_attribute
update_obj_attribute(S, model_name, _id, attribute_name, attribute_value) ==
    LET r == find_obj(S, model_name, _id) IN
    IF ~r.found THEN r.S
    ELSE IF ~Truthy(attribute_name) \/ ~Truthy(attribute_value) THEN S
    ELSE LET u == _update_obj_attribute(S.objects[r.key], attribute_name,
                                        attribute_value)
         IN IF u.exc # "" THEN [S EXCEPT !.exc = u.exc]
            ELSE save([S EXCEPT !.objects[r.key] = u.obj])

\* update_obj_attributes undoing the items it applied when one raises
RECURSIVE update_obj_attributes_atomic(_, _, _, _)
update_obj_attributes_atomic(S, model_name, _id, kwargs) ==
    IF kwargs = <<>> \/ S.exc # "" THEN S
    ELSE LET T == update_obj_attributes_atomic(
                      update_obj_attribute(S, model_name, _id,
                                           Head(kwargs).k, Head(kwargs).v),
                      model_name, _id, Tail(kwargs))
         IN IF T.exc # "" THEN [S EXCEPT !.exc = T.exc] ELSE T

\* FileStorage.update_obj_attributes: one update_obj_attribute per item, in
\* the order of the dict, until one raises
RECURSIVE update_obj_attributes(_, _, _, _)
update_obj_attributes(S, model_name, _id, kwargs) ==
    IF kwargs = <<>> \/ S.exc # "" THEN S
    ELSE update_obj_attributes(
             update_obj_attribute(S, model_name, _id,
                                  Head(kwargs).k, Head(kwargs).v),
             model_name, _id, Tail(kwargs))

\* key.startswith(model_name) for the text "<kind>.<id>" of a key: no name
\* of MODELS contains a dot or is a prefix of another one, so a key starts
\* with a known model name exactly when that name is its kind
key_startswith(key, model_name) == key.kind = model_name

\* the length of the list that find_all returns: one entry per key kept
find_all_len(S, model_name) ==
    IF ~Truthy(model_name) THEN Cardinality(DOMAIN S.objects)
    ELSE IF model_name.t # "str" \/ model_name.s \notin get_models_names
    THEN 0
    ELSE Cardinality({k \in DOMAIN S.objects :
                         S.objects[k].cls = model_name.s})

\* count answering 0 where it has no model to count
count_zero(S, model_name) ==
    IF ~Truthy(model_name) \/ model_name.t # "str"
       \/ model_name.s \notin get_models_names
    THEN [none |-> FALSE, n |-> 0]
    ELSE [none |-> FALSE,
          n |-> Cardinality({k \in DOMAIN S.objects :
                                key_startswith(k, model_name.s)})]

\* FileStorage.count: the number of keys, or None
count(S, model_name) ==
    IF ~Truthy(model_name) \/ model_name.t # "str"
       \/ model_name.s \notin get_models_names
    THEN [none |-> TRUE, n |-> 0]
    ELSE [none |-> FALSE,
          n |-> Cardinality({k \in DOMAIN S.objects :
                                key_startswith(k, model_name.s)})]

(***************************************************************************)
(* Commands (console_commands.py).  Every command class keeps its tokens   *)
(* in a dict whose keys are the slots of its schema, in this order.        *)
(***************************************************************************)
Schema ==
    [create |-> <<"model_name">>,
     show |-> <<"model_name", "instance_id">>,
     destroy |-> <<"model_name", "instance_id">>,
     all |-> <<"model_name">>,
     count |-> <<"model_name">>,
     update_with_key_value_pair |->
         <<"model_name", "instance_id", "attribute_name", "attribute_value">>,
     update_with_dict |-> <<"model_name", "instance_id", "dictionary">>]
CommandClasses == DOMAIN Schema

\* tokens.get(name) for the slots of a command class
Slot(slots, name) ==
    CASE name = "model_name" -> slots[1]
      [] name = "instance_id" -> slots[2]
      [] OTHER -> IF name = "attribute_value" THEN slots[4] ELSE slots[3]

\* XxxCommand.set_tokens: zip(self.__tokens, tokens)
set_tokens(slots, toks) ==
    [i \in 1..Len(slots) |-> IF i <= Len(toks) THEN toks[i] ELSE slots[i]]

\* XxxCommand.reset_tokens
reset_tokens(slots) == [i \in 1..Len(slots) |-> None]

\* HBNBCommand.__MAX_HIS
MAX_HIS == 100
\* no .airbnb_cmd_history.txt
NoHistoryFile == [state |-> "missing", lines |-> <<>>]

\* HBNBCommand.add_history dropping the line it has just appended
add_history_newest(h, l) ==
    LET a == Append(h, l) IN
    IF Len(a) > MAX_HIS THEN SubSeq(a, 1, Len(a) - 1) ELSE a

\* HBNBCommand.add_history: append, then pop(0) when longer than __MAX_HIS
add_history(h, l) ==
    LET a == Append(h, l) IN
    IF Len(a) > MAX_HIS THEN Tail(a) ELSE a

\* HBNBCommand.load_history: the lines of the file are appended, then the
\* last __MAX_HIS lines are kept; FileNotFoundError is passed over
load_history(h, f) ==
    IF f.state = "missing" THEN h
    ELSE LET a == h \o f.lines IN
         IF Len(a) > MAX_HIS
         THEN SubSeq(a, Len(a) - MAX_HIS + 1, Len(a))
         ELSE a

\* HBNBCommand.save_history
save_history(h) == [state |-> "written", lines |-> h]

\* the tokens of a command class before any call
NoTokens == [c \in CommandClasses |-> [i \in 1..Len(Schema[c]) |-> None]]
\* two command objects of every class, none of them called yet
Objects == {1, 2}
NoOwned == [who |-> 0, slots |-> [o \in Objects |-> NoTokens]]

\* UpdateWithNameValuePairCommand.check_tokens
check_tokens_pair(toks) == Len(toks) >= 4 /\ toks[3].t = "str"
\* UpdateWithDictCommand.check_tokens
check_tokens_dict(toks) == Len(toks) >= 3 /\ toks[3].t = "dict"

\* The command state C = [tokens, current_update]; current_update is ""
\* when UpdateCommand.__current_update_command is None.

\* UpdateCommand.set_tokens
UpdateCommand_set_tokens(C, toks) ==
    LET cur == IF check_tokens_pair(toks) THEN "update_with_key_value_pair"
               ELSE IF check_tokens_dict(toks) THEN "update_with_dict"
               ELSE C.current_update
        target == IF cur # "" THEN cur ELSE "update_with_key_value_pair"
    IN [tokens |-> [C.tokens EXCEPT ![target] = set_tokens(@, toks)],
        current_update |-> cur]

\* UpdateCommand.reset_tokens
UpdateCommand_reset_tokens(C) ==
    IF C.current_update = ""
    THEN [C EXCEPT !.tokens["update_with_key_value_pair"] = reset_tokens(@)]
    ELSE [tokens |-> [C.tokens EXCEPT ![C.current_update] = reset_tokens(@)],
          current_update |-> ""]

\* the command class that UpdateCommand.execute delegates to
UpdateCommand_target(C) ==
    IF C.current_update = "" THEN "update_with_key_value_pair"
    ELSE C.current_update

\* self.__airbnb_commands[name].set_tokens(toks)
Command_set_tokens(C, name, toks) ==
    IF name = "update" THEN UpdateCommand_set_tokens(C, toks)
    ELSE [C EXCEPT !.tokens[name] = set_tokens(@, toks)]

\* self.__airbnb_commands[name].reset_tokens()
Command_reset_tokens(C, name) ==
    IF name = "update" THEN UpdateCommand_reset_tokens(C)
    ELSE [C EXCEPT !.tokens[name] = reset_tokens(@)]

\* AirBnBCommand.get_model_name
get_model_name(S, slots) ==
    IF ~Truthy(Slot(slots, "model_name"))
    THEN [S |-> Say(S, Diag(ClassNameMissing)), found |-> FALSE]
    ELSE [S |-> S, found |-> TRUE]

\* AirBnBCommand.get_instance_id
get_instance_id(S, slots) ==
    IF ~Truthy(Slot(slots, "instance_id"))
    THEN [S |-> Say(S, Diag(InstanceIdMissing)), found |-> FALSE]
    ELSE [S |-> S, found |-> TRUE]

\* AirBnBCommand.get_attribute_name_value_pair
get_attribute_name_value_pair(S, slots) ==
    IF ~Truthy(Slot(slots, "attribute_name"))
    THEN [S |-> Say(S, Diag(AttributeNameMissing)), found |-> FALSE]
    ELSE IF ~Truthy(Slot(slots, "attribute_value"))
    THEN [S |-> Say(S, Diag(ValueMissing)), found |-> FALSE]
    ELSE [S |-> S, found |-> TRUE]

\* AirBnBCommand.get_model_class
Command_get_model_class(S, slots) ==
    LET n == get_model_name(S, slots) IN
    IF ~n.found THEN [S |-> n.S, found |-> FALSE, cls |-> ""]
    ELSE get_model_class(S, Slot(slots, "model_name"))

\* get_model_instance asking for the instance id before the class
get_model_instance_id_first(S, slots) ==
    LET i == get_instance_id(S, slots) IN
    IF ~i.found THEN [S |-> i.S, found |-> FALSE, cls |-> "", key |-> NoKey]
    ELSE LET c == Command_get_model_class(S, slots) IN
         IF ~c.found
         THEN [S |-> c.S, found |-> FALSE, cls |-> "", key |-> NoKey]
         ELSE LET r == find_obj(S, StrV(c.cls), Slot(slots, "instance_id"))
              IN [S |-> r.S, found |-> r.found, cls |-> c.cls, key |-> r.key]

\* AirBnBCommand.get_model_instance: the class and the key of the instance
get_model_instance(S, slots) ==
    LET c == Command_get_model_class(S, slots) IN
    IF ~c.found THEN [S |-> c.S, found |-> FALSE, cls |-> "", key |-> NoKey]
    ELSE LET i == get_instance_id(S, slots) IN
         IF ~i.found
         THEN [S |-> i.S, found |-> FALSE, cls |-> "", key |-> NoKey]
         ELSE LET r == find_obj(S, StrV(c.cls), Slot(slots, "instance_id"))
              IN [S |-> r.S, found |-> r.found, cls |-> c.cls, key |-> r.key]

\* BaseModel.save: bump updated_at, then storage.save()
BaseModel_save(S, key, t) ==
    save([S EXCEPT !.objects[key].f["updated_at"] = DateV(t)])

\* CreateCommand.execute without instance.save()
CreateCommand_execute_unsaved(S, slots, id, t) ==
    LET c == Command_get_model_class(S, slots) IN
    IF ~c.found THEN c.S
    ELSE Say(new(S, BaseModel(c.cls, id, t)), OutLine("id", id, 0, {}))

\* CreateCommand.execute, with the id uuid4() returns and the time
CreateCommand_execute(S, slots, id, t) ==
    LET c == Command_get_model_class(S, slots) IN
    IF ~c.found THEN c.S
    ELSE LET instance == BaseModel(c.cls, id, t)
             key == _get_obj_key(StrV(c.cls), instance.f["id"])
         IN BaseModel_save(
                Say(new(S, instance), OutLine("id", id, 0, {})), key, t + 1)

\* whether CreateCommand.execute creates an instance
CreateCommand_creates(slots) ==
    /\ Truthy(Slot(slots, "model_name"))
    /\ Slot(slots, "model_name").t = "str"
    /\ Slot(slots, "model_name").s \in MODELS

\* ShowCommand.execute
ShowCommand_execute_removing(S, slots) ==
    LET m == get_model_instance(S, slots) IN
    IF ~m.found THEN m.S
    ELSE remove_obj(S, slots[1], slots[2])

ShowCommand_execute(S, slots) ==
    LET m == get_model_instance(S, slots) IN
    IF ~m.found THEN m.S
    ELSE Say(S, OutLine("obj", "", 0, {S.objects[m.key]}))

\* DestroyCommand.execute
DestroyCommand_execute(S, slots) ==
    LET m == get_model_instance(S, slots) IN
    IF ~m.found THEN m.S
    ELSE remove_obj(S, StrV(m.cls), S.objects[m.key].f["id"])

\* AllCommand.execute
AllCommand_execute(S, slots) ==
    IF ~Truthy(Slot(slots, "model_name"))
    THEN Say(S, OutLine("list", "", 0, find_all(S, StrV(""))))
    ELSE LET c == Command_get_model_class(S, slots) IN
         IF ~c.found THEN c.S
         ELSE Say(S, OutLine("list", "", 0, find_all(S, StrV(c.cls))))

\* UpdateWithNameValuePairCommand.execute
UpdateWithNameValuePairCommand_execute(S, slots) ==
    LET m == get_model_instance(S, slots) IN
    IF ~m.found THEN m.S
    ELSE LET p == get_attribute_name_value_pair(S, slots) IN
         IF ~p.found THEN p.S
         ELSE update_obj_attribute(S, StrV(m.cls), S.objects[m.key].f["id"],
                                   Slot(slots, "attribute_name"),
                                   Slot(slots, "attribute_value"))

\* the parameter names of update_obj_attributes, which **dictionary must not
\* repeat
Parameters == {"self", "model_name", "_id"}

\* UpdateWithDictCommand.execute
UpdateWithDictCommand_execute(S, slots) ==
    LET m == get_model_instance(S, slots)
        dictionary == Slot(slots, "dictionary")
    IN
    IF ~m.found THEN m.S
    ELSE IF ~Truthy(dictionary) THEN S
    ELSE IF dictionary.t # "dict" THEN [S EXCEPT !.exc = "TypeError"]
    ELSE IF \E i \in 1..Len(dictionary.d) :
               \/ dictionary.d[i].k.t # "str"
               \/ dictionary.d[i].k.s \in Parameters
    THEN [S EXCEPT !.exc = "TypeError"]
    ELSE update_obj_attributes(S, StrV(m.cls), S.objects[m.key].f["id"],
                               dictionary.d)

\* CountCommand.execute
CountCommand_execute(S, slots) ==
    LET c == Command_get_model_class(S, slots) IN
    IF ~c.found THEN c.S
    ELSE LET r == count(S, StrV(c.cls)) IN
         Say(S, IF r.none THEN OutLine("none", "", 0, {})
                ELSE OutLine("count", "", r.n, {}))

\* XxxCommand.execute for the commands that need no id
Command_execute(S, class, slots) ==
    CASE class = "show" -> ShowCommand_execute(S, slots)
      [] class = "destroy" -> DestroyCommand_execute(S, slots)
      [] class = "all" -> AllCommand_execute(S, slots)
      [] class = "count" -> CountCommand_execute(S, slots)
      [] class = "update_with_key_value_pair" ->
             UpdateWithNameValuePairCommand_execute(S, slots)
      [] class = "update_with_dict" -> UpdateWithDictCommand_execute(S, slots)

(***************************************************************************)
(* Input lines.  A line is either in shell form, `cmd arg ...`, or in      *)
(* dotted form, `cls.cmd(arg, ...)`: cmd is the first word or the method   *)
(* name, args the words (all text) or the literals of the argument list.   *)
(* The other forms are the empty line, a line with an unbalanced quote,    *)
(* a dotted call whose argument list is not a literal (`User.show(abc)`)   *)
(* and one whose argument list holds an unhashable dict key                *)
(* (`User.show({[1]: 2})`).                                                *)
(***************************************************************************)
Line(form, cls, cmd, args) ==
    [form |-> form, cls |-> cls, cmd |-> cmd, args |-> args]
NoLine == Line("none", "", "", <<>>)
EmptyLine == Line("empty", "", "", <<>>)

\* HBNBCommand.__airbnb_commands
airbnb_commands == {"create", "show", "destroy", "all", "update", "count"}
\* the commands that have a do_<command> method
Handlers == {"create", "show", "destroy", "all", "update"}

\* the inputs of the model
InIds == {"id1", "id2"}
InAttrs == {"id", "age"}
InVals == {"22", "abc"}
InDicts == {<<Item(StrV("age"), IntV(30))>>,
            <<Item(StrV("name"), StrV("abc")), Item(StrV("age"), StrV("abc"))>>,
            <<Item(IntV(1), StrV("abc"))>>}
Prefixes(q) == {SubSeq(q, 1, n) : n \in 0..Len(q)}
ShellWords ==
    UNION {Prefixes(<<StrV("User"), StrV(i), StrV(a), StrV(v)>>) :
              i \in InIds, a \in InAttrs, v \in InVals}
    \cup {<<StrV("User"), StrV(i), StrV(DictWord)>> : i \in InIds}
    \cup {<<StrV("City")>>, <<StrV("BModel")>>,
          <<StrV("BModel"), StrV("id1")>>}
Arity ==
    [create |-> 1, show |-> 2, destroy |-> 2, all |-> 1, update |-> 4,
     count |-> 1]
ShellLines ==
    UNION {{Line("shell", "", c, w) :
               w \in {x \in ShellWords : Len(x) <= Arity[c] + 1}} :
              c \in airbnb_commands}
    \cup {Line("shell", "", "foo", <<>>)}
DottedArgs ==
    [create |-> {<<>>}, all |-> {<<>>}, count |-> {<<>>}, foo |-> {<<>>},
     show |-> {<<StrV(i)>> : i \in InIds},
     destroy |-> {<<StrV(i)>> : i \in InIds},
     update |->
         UNION {{<<StrV(i)>>} \cup
                {<<StrV(i), StrV(a)>> : a \in InAttrs} \cup
                {<<StrV(i), StrV(a), StrV(v)>> : a \in InAttrs, v \in InVals}
                \cup {<<StrV(i), DictV(d)>> : d \in InDicts} : i \in InIds}]
DottedLines ==
    UNION {{Line("dotted", "User", c, a) : a \in DottedArgs[c]} :
              c \in DOMAIN DottedArgs}
Lines ==
    ShellLines
    \cup DottedLines
    \cup {EmptyLine, Line("badquote", "", "", <<>>),
          Line("badliteral", "User", "show", <<>>),
          Line("unhashable", "User", "show", <<>>)}

\* shlex.split closing the quote that the line leaves open
shlex_split_lenient(l) ==
    CASE l.form = "shell" -> <<StrV(l.cmd)>> \o l.args
      [] l.form \in {"dotted", "badliteral", "unhashable"} ->
             <<StrV(l.cls \o "." \o l.cmd \o "(...)")>>
      [] l.form = "badquote" -> <<StrV("create"), StrV("User")>>
      [] OTHER -> <<>>

\* shlex.split(line): the words of a line, "" (no words) when it raises
shlex_split(l) ==
    CASE l.form = "shell" -> <<StrV(l.cmd)>> \o l.args
      [] l.form \in {"dotted", "badliteral", "unhashable"} ->
             <<StrV(l.cls \o "." \o l.cmd \o "(...)")>>
      [] OTHER -> <<>>

\* HBNBCommand.extract_method_call: the regular expression matches the
\* dotted form only, the method has to be a command and the arguments a
\* literal.  args is function_args: None, one value, or a tuple of values.
\* ast.literal_eval raises ValueError or SyntaxError, which is printed (err),
\* for text that is not a literal, and TypeError, which is not caught (exc),
\* for a dict literal with an unhashable key.
NoCall ==
    [ok |-> FALSE, cls |-> "", fn |-> "", tuple |-> FALSE, args |-> <<>>,
     err |-> "", exc |-> ""]
extract_method_call(l) ==
    IF l.form \notin {"dotted", "badliteral", "unhashable"} THEN NoCall
    ELSE IF l.cmd \notin airbnb_commands THEN NoCall
    ELSE IF l.form = "badliteral"
    THEN [NoCall EXCEPT !.err = "malformed node or string"]
    ELSE IF l.form = "unhashable"
    THEN [NoCall EXCEPT !.exc = "TypeError"]
    ELSE [ok |-> TRUE, cls |-> l.cls, fn |-> l.cmd,
          tuple |-> Len(l.args) >= 2,
          args |-> IF l.args = <<>> THEN <<None>> ELSE l.args,
          err |-> "", exc |-> ""]

\* the tokens HBNBCommand.default binds for a dotted call
default_tokens(x) == <<StrV(x.cls)>> \o x.args

(***************************************************************************)
(* The command loop.                                                       *)
(***************************************************************************)
NoExec == [class |-> "", slots |-> <<>>]

Init ==
    /\ objects = <<>>
    /\ doc = [state |-> "missing", m |-> <<>>]
    /\ tokens = [c \in CommandClasses |-> [i \in 1..Len(Schema[c]) |-> None]]
    /\ current_update = ""
    /\ current_cmd = ""
    /\ line = NoLine
    /\ pc = "read"
    /\ out = <<>>
    /\ raised = ""
    /\ executed = NoExec
    /\ next_id = 0
    /\ now = 0
    /\ nlines = 0
    /\ ret = NoRet
    /\ owned = NoOwned
    /\ history = <<>>
    /\ history_file = NoHistoryFile

C_now == [tokens |-> tokens, current_update |-> current_update]
S_now == [objects |-> objects, doc |-> doc, out |-> out, exc |-> ""]

\* HBNBCommand.precmd.  The history keeps a line as its number in the order
\* of typing.
precmd(l) ==
    /\ pc = "read"
    /\ nlines < MaxLines
    /\ nlines' = nlines + 1
    /\ LET words == shlex_split(l) IN
       /\ out' = IF l.form = "badquote"
                 THEN <<Diag("No closing quotation")>> ELSE <<>>
       /\ IF words = <<>>
          THEN /\ line' = EmptyLine
               /\ UNCHANGED <<current_cmd, tokens, current_update>>
          ELSE /\ line' = l
               /\ current_cmd' = words[1].s
               /\ LET C == IF words[1].s \in airbnb_commands
                           THEN Command_set_tokens(C_now, words[1].s,
                                                   Tail(words))
                           ELSE C_now
                  IN /\ tokens' = C.tokens
                     /\ current_update' = C.current_update
    /\ pc' = "onecmd"
    /\ executed' = NoExec
    /\ history' = add_history(history, nlines + 1)
    /\ UNCHANGED <<objects, doc, raised, next_id, now, ret, owned,
                   history_file>>

\* the state after command.execute() returned S, or raised
Executed(S, class, slots) ==
    /\ objects' = S.objects
    /\ doc' = S.doc
    /\ out' = S.out
    /\ raised' = S.exc
    /\ pc' = IF S.exc = "" THEN "postcmd" ELSE "crashed"
    /\ executed' = [class |-> class, slots |-> slots]

\* create.execute() with tokens T: uuid4() and the clock are consumed when
\* an instance is created
ExecuteCreate(T) ==
    /\ CreateCommand_creates(T["create"]) => next_id < MaxCreated
    /\ Executed(CreateCommand_execute(S_now, T["create"], Uuid[next_id + 1],
                                      now),
                "create", T["create"])
    /\ IF CreateCommand_creates(T["create"])
       THEN next_id' = next_id + 1 /\ now' = now + 2
       ELSE UNCHANGED <<next_id, now>>

\* any other command.execute() with tokens T
Execute(class, T) ==
    /\ Executed(Command_execute(S_now, class, T[class]), class, T[class])
    /\ UNCHANGED <<next_id, now>>

\* cmd.Cmd.onecmd calls do_<command>(arg) for the first word of the line
Routed(c) == pc = "onecmd" /\ line.form = "shell" /\ line.cmd = c

do_create ==
    /\ Routed("create")
    /\ ExecuteCreate(tokens)
    /\ UNCHANGED <<tokens, current_update, current_cmd, line, nlines, ret,
                   owned, history, history_file>>

do_show ==
    /\ Routed("show")
    /\ Execute("show", tokens)
    /\ UNCHANGED <<tokens, current_update, current_cmd, line, nlines, ret,
                   owned, history, history_file>>

do_destroy ==
    /\ Routed("destroy")
    /\ Execute("destroy", tokens)
    /\ UNCHANGED <<tokens, current_update, current_cmd, line, nlines, ret,
                   owned, history, history_file>>

do_all ==
    /\ Routed("all")
    /\ Execute("all", tokens)
    /\ UNCHANGED <<tokens, current_update, current_cmd, line, nlines, ret,
                   owned, history, history_file>>

do_update ==
    /\ Routed("update")
    /\ Execute(UpdateCommand_target(C_now), tokens)
    /\ UNCHANGED <<tokens, current_update, current_cmd, line, nlines, ret,
                   owned, history, history_file>>

\* HBNBCommand.default: every line without a do_ method
default ==
    /\ pc = "onecmd"
    /\ line.form \in {"shell", "dotted", "badliteral", "unhashable"}
    /\ line.form = "shell" => line.cmd \notin Handlers
    /\ LET x == extract_method_call(line) IN
       IF x.exc # ""
       THEN /\ raised' = x.exc
            /\ pc' = "crashed"
            /\ UNCHANGED <<objects, doc, tokens, current_update, out,
                           executed, next_id, now>>
       ELSE IF ~x.ok
       THEN /\ out' = out \o (IF x.err # "" THEN <<Diag(x.err)>> ELSE <<>>)
                          \o <<Diag(UnknownSyntax)>>
            /\ pc' = "postcmd"
            /\ UNCHANGED <<objects, doc, tokens, current_update, raised,
                           executed, next_id, now>>
       ELSE LET C == Command_set_tokens(C_now, x.fn, default_tokens(x)) IN
            /\ tokens' = C.tokens
            /\ current_update' = C.current_update
            /\ IF x.fn = "create" THEN ExecuteCreate(C.tokens)
               ELSE Execute(IF x.fn = "update" THEN UpdateCommand_target(C)
                            ELSE x.fn, C.tokens)
    /\ UNCHANGED <<current_cmd, line, nlines, ret,
                   owned, history, history_file>>

\* an emptyline that runs a command again, as cmd.Cmd.emptyline does
emptyline_repeating ==
    /\ pc = "onecmd"
    /\ line.form = "empty"
    /\ Execute("all", tokens)
    /\ UNCHANGED <<tokens, current_update, current_cmd, line, nlines, ret,
                   owned, history,
                   history_file>>

\* HBNBCommand.emptyline
emptyline ==
    /\ pc = "onecmd"
    /\ line.form = "empty"
    /\ pc' = "postcmd"
    /\ UNCHANGED <<objects, doc, tokens, current_update, current_cmd, line,
                   out, raised, executed, next_id, now, nlines, ret,
                   owned, history, history_file>>

\* HBNBCommand.postcmd
postcmd ==
    /\ pc = "postcmd"
    /\ LET C == IF current_cmd \in airbnb_commands
                THEN Command_reset_tokens(C_now, current_cmd)
                ELSE C_now
       IN /\ tokens' = C.tokens
          /\ current_update' = C.current_update
    /\ current_cmd' = ""
    /\ pc' = "read"
    /\ line' = NoLine
    /\ out' = <<>>
    /\ executed' = NoExec
    /\ UNCHANGED <<objects, doc, raised, next_id, now, nlines, ret,
                   owned, history, history_file>>

Next ==
    \/ \E l \in Lines : precmd(l)
    \/ do_create
    \/ do_show
    \/ do_destroy
    \/ do_all
    \/ do_update
    \/ default
    \/ emptyline
    \/ postcmd

Spec == Init /\ [][Next]_vars

(***************************************************************************)
(* The registry over process lifetimes.  A process starts with an empty    *)
(* store and reloads the document (models/__init__.py); it then calls the  *)
(* methods of FileStorage, as the commands and the tests do, until it      *)
(* exits and the next process starts from the document it left.            *)
(***************************************************************************)
MaxCalls == 4

\* the arguments of the calls
InKinds == {StrV("User"), StrV("BModel"), StrV("")}
CallIds == {StrV("id1"), StrV("id9"), StrV("id8"), StrV("")}
CallAttrs == {StrV("name")}
CallVals == {StrV("abc"), IntV(30), DictV(<<Item(IntV(1), StrV("abc"))>>)}

\* the record of an entity in a document written at time 0, and the same
\* record with another __class__ ("" for none)
DocRecord(cls, id) ==
    [json_dump(to_dict(BaseModel("User", id, 0))) EXCEPT !.cls = cls]
\* the documents a process can find: none, one that is not JSON, and
\* documents with a User and a City, or a record that has no __class__ or an
\* unknown one
Docs ==
    {[state |-> "missing", m |-> <<>>],
     [state |-> "malformed", m |-> <<>>],
     [state |-> "written",
      m |-> (_get_obj_key(StrV("User"), StrV("id9")) :>
                 DocRecord("User", "id9"))],
     [state |-> "written",
      m |-> (_get_obj_key(StrV("User"), StrV("id9")) :>
                 DocRecord("User", "id9"))
            @@ (_get_obj_key(StrV("City"), StrV("id8")) :>
                    DocRecord("City", "id8"))],
     [state |-> "written",
      m |-> (_get_obj_key(StrV("User"), StrV("id9")) :>
                 DocRecord("User", "id9"))
            @@ (_get_obj_key(StrV("User"), StrV("id8")) :>
                    DocRecord("", "id8"))],
     [state |-> "written",
      m |-> (_get_obj_key(StrV("User"), StrV("id9")) :>
                 DocRecord("User", "id9"))
            @@ (_get_obj_key(StrV("BModel"), StrV("id8")) :>
                    DocRecord("BModel", "id8"))]}

StorageInit ==
    /\ objects = <<>>
    /\ doc \in Docs
    /\ tokens = [c \in CommandClasses |-> [i \in 1..Len(Schema[c]) |-> None]]
    /\ current_update = ""
    /\ current_cmd = ""
    /\ line = NoLine
    /\ pc = "start"
    /\ out = <<>>
    /\ raised = ""
    /\ executed = NoExec
    /\ next_id = 0
    /\ now = 1
    /\ nlines = 0
    /\ ret = NoRet
    /\ owned = NoOwned
    /\ history = <<>>
    /\ history_file = NoHistoryFile

\* the store and the document at the time of a call
S_call == [objects |-> objects, doc |-> doc, out |-> <<>>, exc |-> ""]

\* the state after the call name(args) left S and returned r, or raised
Called(S, name, args, r) ==
    /\ objects' = S.objects
    /\ doc' = S.doc
    /\ out' = S.out
    /\ raised' = S.exc
    /\ pc' = IF S.exc = "" THEN "ready" ELSE "crashed"
    /\ executed' = [class |-> name, slots |-> args]
    /\ ret' = r
    /\ owned' = owned
    /\ UNCHANGED <<history, history_file>>
    /\ UNCHANGED <<tokens, current_update, current_cmd, line>>

\* a call made by a running process
Calling ==
    /\ pc = "ready"
    /\ nlines < MaxCalls
    /\ nlines' = nlines + 1

\* models/__init__.py: storage = FileStorage(); storage.reload()
call_reload ==
    /\ pc = "start"
    /\ Called(reload(S_call), "reload", <<>>, NoRet)
    /\ UNCHANGED <<next_id, now, nlines>>

\* instance = model_class(); instance.save(), as CreateCommand.execute
call_create ==
    /\ Calling
    /\ next_id < MaxCreated
    /\ Called(CreateCommand_execute(S_call, <<StrV("User")>>,
                                     Uuid[next_id + 1], now),
              "create", <<StrV("User")>>, NoRet)
    /\ next_id' = next_id + 1
    /\ now' = now + 2

\* the objects handed to new: None, an object that is not a model, a User
\* that is not in the store, and a User with the id of a stored one
NewObjs ==
    {NoneObj,
     [cls |-> "object", f |-> [NoFields EXCEPT !["id"] = StrV("id7")]],
     BaseModel("User", "id7", 0),
     setattr(BaseModel("User", "id9", 0), "name", StrV("abc"))}

call_new(obj) ==
    /\ Calling
    /\ Called(new(S_call, obj), "new", <<obj>>, NoRet)
    /\ UNCHANGED <<next_id, now>>

call_find_obj(model_name, _id) ==
    /\ Calling
    /\ LET r == find_obj(S_call, model_name, _id) IN
       Called(r.S, "find_obj", <<model_name, _id>>,
              IF r.obj = NoneObj THEN NoRet
              ELSE OutLine("obj", "", 0, {r.obj}))
    /\ UNCHANGED <<next_id, now>>

call_remove_obj(model_name, _id) ==
    /\ Calling
    /\ Called(remove_obj(S_call, model_name, _id), "remove_obj",
              <<model_name, _id>>, NoRet)
    /\ UNCHANGED <<next_id, now>>

call_update_obj_attribute(model_name, _id, attribute_name, attribute_value) ==
    /\ Calling
    /\ Called(update_obj_attribute(S_call, model_name, _id, attribute_name,
                                   attribute_value),
              "update_obj_attribute",
              <<model_name, _id, attribute_name, attribute_value>>, NoRet)
    /\ UNCHANGED <<next_id, now>>

call_find_all(model_name) ==
    /\ Calling
    /\ Called(S_call, "find_all", <<model_name>>,
              OutLine("list", "", 0, find_all(S_call, model_name)))
    /\ UNCHANGED <<next_id, now>>

call_count(model_name) ==
    /\ Calling
    /\ LET r == count(S_call, model_name) IN
       Called(S_call, "count", <<model_name>>,
              IF r.none THEN NoRet ELSE OutLine("count", "", r.n, {}))
    /\ UNCHANGED <<next_id, now>>

call_save ==
    /\ Calling
    /\ Called(save(S_call), "save", <<>>, NoRet)
    /\ UNCHANGED <<next_id, now>>

\* the process exits (quit, EOF, or the exception that stopped it) and a new
\* one starts: every class attribute has its initial value again
restart ==
    /\ pc \in {"ready", "crashed"}
    /\ nlines < MaxCalls
    /\ nlines' = nlines + 1
    /\ objects' = <<>>
    /\ pc' = "start"
    /\ out' = <<>>
    /\ raised' = ""
    /\ executed' = NoExec
    /\ ret' = NoRet
    /\ owned' = owned
    /\ UNCHANGED <<history, history_file>>
    /\ UNCHANGED <<doc, tokens, current_update, current_cmd, line, next_id,
                   now>>

StorageNext ==
    \/ call_reload
    \/ call_create
    \/ \E obj \in NewObjs : call_new(obj)
    \/ \E k \in InKinds, i \in CallIds : call_find_obj(k, i)
    \/ \E k \in InKinds, i \in CallIds : call_remove_obj(k, i)
    \/ \E k \in InKinds, i \in CallIds, a \in CallAttrs, v \in CallVals :
           call_update_obj_attribute(k, i, a, v)
    \/ \E k \in InKinds : call_find_all(k)
    \/ \E k \in InKinds : call_count(k)
    \/ call_save
    \/ restart

StorageSpec == StorageInit /\ [][StorageNext]_vars

(***************************************************************************)
(* The updates of one entity.  A process that has created a User calls     *)
(* the static method _update_obj_attribute on it and update_obj_attributes *)
(* on the registry, and handles what a call raises.                        *)
(***************************************************************************)
\* the names, values and dicts of the calls
UNames ==
    {StrV("name"), StrV("age"), StrV("created_at"), StrV("save"),
     StrV("__class__"), IntV(1)}
UVals ==
    {StrV("abc"), StrV("22"), IntV(30), DictV(<<Item(StrV("a"), IntV(1))>>)}
UDicts ==
    {<<Item(StrV("age"), IntV(30)), Item(StrV("name"), StrV("abc"))>>,
     <<Item(StrV("age"), StrV("abc")), Item(StrV("name"), StrV("22"))>>,
     <<Item(StrV("save"), StrV("abc")), Item(StrV("age"), StrV("22")),
       Item(StrV("name"), IntV(30))>>}
UIds == {StrV("id1"), StrV("id2")}
\* the names and values of the calls of update_obj_attribute: with and
\* without text, the numbers 0 and 30, and None
UAttrs == {StrV("age"), StrV("")}
UValues == {StrV("22"), StrV(""), IntV(0), IntV(30), None}

\* the entity of the calls and its key
UKey == _get_obj_key(StrV("User"), StrV(Uuid[1]))
\* the state after instance = User(); instance.save()
UCreated ==
    CreateCommand_execute(
        [objects |-> <<>>, doc |-> [state |-> "missing", m |-> <<>>],
         out |-> <<>>, exc |-> ""], <<StrV("User")>>, Uuid[1], 0)

UpdateInit ==
    /\ objects = UCreated.objects
    /\ doc = UCreated.doc
    /\ tokens = [c \in CommandClasses |-> [i \in 1..Len(Schema[c]) |-> None]]
    /\ current_update = ""
    /\ current_cmd = ""
    /\ line = NoLine
    /\ pc = "ready"
    /\ out = <<>>
    /\ raised = ""
    /\ executed = NoExec
    /\ next_id = 1
    /\ now = 2
    /\ nlines = 0
    /\ ret = NoRet
    /\ owned = NoOwned
    /\ history = <<>>
    /\ history_file = NoHistoryFile

\* the state after the call name(args) left S, or raised and was handled
Handled(S, name, args) ==
    /\ objects' = S.objects
    /\ doc' = S.doc
    /\ out' = S.out
    /\ raised' = S.exc
    /\ pc' = "ready"
    /\ executed' = [class |-> name, slots |-> args]
    /\ ret' = NoRet
    /\ owned' = owned
    /\ UNCHANGED <<history, history_file>>
    /\ UNCHANGED <<tokens, current_update, current_cmd, line, next_id, now>>

\* FileStorage._update_obj_attribute(obj, attribute_name, value) on the
\* entity: setattr changes the object that the store holds
call__update_obj_attribute(attribute_name, value) ==
    /\ Calling
    /\ LET u == _update_obj_attribute(objects[UKey], attribute_name, value)
       IN Handled([objects |-> [objects EXCEPT ![UKey] = u.obj],
                   doc |-> doc, out |-> <<>>, exc |-> u.exc],
                  "_update_obj_attribute", <<attribute_name, value>>)

\* storage.update_obj_attributes("User", _id, **kwargs)
call_update_obj_attributes(_id, kwargs) ==
    /\ Calling
    /\ Handled(update_obj_attributes(S_call, StrV("User"), _id, kwargs),
               "update_obj_attributes", <<StrV("User"), _id, DictV(kwargs)>>)

UpdateNext ==
    \/ \E a \in UNames, v \in UVals : call__update_obj_attribute(a, v)
    \/ \E i \in UIds, d \in UDicts : call_update_obj_attributes(i, d)
    \/ \E i \in UIds, a \in UAttrs, v \in UValues :
           call_update_obj_attribute(StrV("User"), i, a, v)

UpdateSpec == UpdateInit /\ [][UpdateNext]_vars

(***************************************************************************)
(* Two command objects of a class.  __tokens is an attribute of the class  *)
(* (`__tokens: dict = {...}` in the class body) that set_tokens and        *)
(* reset_tokens change in place through self, so the variable tokens is    *)
(* what every object of the class reads.  A process that has created a     *)
(* User calls set_tokens, reset_tokens and execute on either object.       *)
(***************************************************************************)
CClasses == {"show", "update_with_key_value_pair"}
CTokens ==
    {<<StrV("User"), StrV("id1")>>,
     <<StrV("User"), StrV("id1"), StrV("age"), StrV("22")>>,
     <<StrV("City")>>}

CommandsInit ==
    /\ objects = UCreated.objects
    /\ doc = UCreated.doc
    /\ tokens = NoTokens
    /\ current_update = ""
    /\ current_cmd = ""
    /\ line = NoLine
    /\ pc = "commands"
    /\ out = <<>>
    /\ raised = ""
    /\ executed = NoExec
    /\ next_id = 1
    /\ now = 2
    /\ nlines = 0
    /\ ret = NoRet
    /\ owned = NoOwned
    /\ history = <<>>
    /\ history_file = NoHistoryFile

\* a call on one of the command objects
CallingCommand ==
    /\ pc = "commands"
    /\ nlines < MaxCalls
    /\ nlines' = nlines + 1
    /\ UNCHANGED <<current_update, current_cmd, line, pc, next_id, now, ret,
                   history, history_file>>

\* XxxCommand.set_tokens(toks) on object o of class c
obj_set_tokens(o, c, toks) ==
    /\ CallingCommand
    /\ tokens' = [tokens EXCEPT ![c] = set_tokens(@, toks)]
    /\ owned' = [who |-> o,
                 slots |-> [owned.slots EXCEPT
                               ![o][c] = set_tokens(@, toks)]]
    /\ executed' = NoExec
    /\ UNCHANGED <<objects, doc, out, raised>>

\* XxxCommand.reset_tokens() on object o of class c
obj_reset_tokens(o, c) ==
    /\ CallingCommand
    /\ tokens' = [tokens EXCEPT ![c] = reset_tokens(@)]
    /\ owned' = [who |-> o,
                 slots |-> [owned.slots EXCEPT ![o][c] = reset_tokens(@)]]
    /\ executed' = NoExec
    /\ UNCHANGED <<objects, doc, out, raised>>

\* XxxCommand.execute() on object o of class c, which reads self.__tokens
obj_execute(o, c) ==
    /\ CallingCommand
    /\ LET S == Command_execute(S_call, c, tokens[c]) IN
       /\ objects' = S.objects
       /\ doc' = S.doc
       /\ out' = S.out
       /\ raised' = S.exc
    /\ executed' = [class |-> c, slots |-> tokens[c]]
    /\ owned' = [owned EXCEPT !.who = o]
    /\ UNCHANGED tokens

CommandsNext ==
    \/ \E o \in Objects, c \in CClasses, t \in CTokens :
           obj_set_tokens(o, c, t)
    \/ \E o \in Objects, c \in CClasses : obj_reset_tokens(o, c)
    \/ \E o \in Objects, c \in CClasses : obj_execute(o, c)

CommandsSpec == CommandsInit /\ [][CommandsNext]_vars

(***************************************************************************)
(* The command history over the runs of `HBNBCommand().cmdloop()`: preloop *)
(* loads the history file, precmd adds every line typed, quit and EOF save *)
(* the history.  A line is its number in the order of writing or typing;   *)
(* nlines is the number of the last one.                                   *)
(***************************************************************************)
MaxTyped == 105

HistoryFiles ==
    {NoHistoryFile}
    \cup {save_history([i \in 1..n |-> i]) : n \in {0, 99, 101, 103}}

HistoryInit ==
    /\ objects = <<>>
    /\ doc = [state |-> "missing", m |-> <<>>]
    /\ tokens = NoTokens
    /\ current_update = ""
    /\ current_cmd = ""
    /\ line = NoLine
    /\ pc = "preloop"
    /\ out = <<>>
    /\ raised = ""
    /\ executed = NoExec
    /\ next_id = 0
    /\ now = 0
    /\ ret = NoRet
    /\ owned = NoOwned
    /\ history = <<>>
    /\ history_file \in HistoryFiles
    /\ nlines = Len(history_file.lines)

\* what a step of the history leaves alone
HistoryFrame ==
    UNCHANGED <<objects, doc, tokens, current_update, current_cmd, line, out,
                raised, executed, next_id, now, ret, owned>>

\* HBNBCommand.preloop
preloop ==
    /\ pc = "preloop"
    /\ history' = load_history(history, history_file)
    /\ pc' = "cmdloop"
    /\ HistoryFrame
    /\ UNCHANGED <<history_file, nlines>>

\* the add_history(line) of precmd
call_add_history ==
    /\ pc = "cmdloop"
    /\ nlines < MaxTyped
    /\ history' = add_history(history, nlines + 1)
    /\ nlines' = nlines + 1
    /\ HistoryFrame
    /\ UNCHANGED <<history_file, pc>>

\* HBNBCommand.do_quit, do_EOF
do_quit ==
    /\ pc = "cmdloop"
    /\ history_file' = save_history(history)
    /\ pc' = "exited"
    /\ HistoryFrame
    /\ UNCHANGED <<history, nlines>>

\* the program is run again: a new process has an empty __history
main ==
    /\ pc = "exited"
    /\ history' = <<>>
    /\ pc' = "preloop"
    /\ HistoryFrame
    /\ UNCHANGED <<history_file, nlines>>

HistoryNext ==
    \/ preloop
    \/ call_add_history
    \/ do_quit
    \/ main

HistorySpec == HistoryInit /\ [][HistoryNext]_vars

(***************************************************************************)
(* Properties.                                                             *)
(***************************************************************************)
\* the step in which a command's execute() runs
Executes == pc = "onecmd" /\ executed'.class # ""
\* the tokens the current line supplies to its command
Supplied ==
    IF line.form = "shell" THEN line.args
    ELSE default_tokens(extract_method_call(line))
\* the entity of class name kind whose key is made of the token id is live
Live(kind, id) == _get_obj_key(kind, id) \in DOMAIN objects

\* C1: when the handling of a line ends (postcmd returns), every token slot
\* of the command that executed for that line is unset.
C1_ResetAfterEveryLine ==
    [][(pc = "postcmd" /\ pc' = "read" /\ executed.class # "")
          => \A i \in DOMAIN tokens'[executed.class] :
                tokens'[executed.class][i] = None]_vars

\* C2: the slots a command sees when it executes are the tokens of the
\* current line, position by position, and None where the line has no token.
C2_SlotsAreTheCurrentTokens ==
    executed.class # ""
        => \A i \in DOMAIN executed.slots :
              executed.slots[i] =
                  IF i <= Len(Supplied) THEN Supplied[i] ELSE None

\* C3: `update <Kind> Y` for a live Y prints "** attribute name missing **",
\* `update <Kind> Y <attr>` prints "** value missing **", and neither
\* changes the store.
C3_UpdateWithoutValueOnlyReports ==
    [][(/\ pc = "onecmd"
        /\ line.form = "shell"
        /\ line.cmd = "update"
        /\ Len(line.args) \in {2, 3}
        /\ Live(line.args[1], line.args[2]))
          => /\ out' = <<Diag(IF Len(line.args) = 2 THEN AttributeNameMissing
                              ELSE ValueMissing)>>
             /\ objects' = objects]_vars

\* C4: no step changes the id of an entity that stays in the store.
C4_IdNeverChanges ==
    [][\A k \in DOMAIN objects \cap DOMAIN objects' :
          objects'[k].f["id"] = objects[k].f["id"]]_vars

\* C5: every key of the store is <Kind>.<id> of the entity it maps to, so
\* that distinct entities of a Kind have distinct ids, and there is at most
\* one key per created entity.
C5_KeysNameTheirEntities ==
    /\ \A k \in DOMAIN objects :
          k = _get_obj_key(StrV(objects[k].cls), objects[k].f["id"])
    /\ \A k1, k2 \in DOMAIN objects :
          (k1 # k2 /\ objects[k1].cls = objects[k2].cls)
              => objects[k1].f["id"] # objects[k2].f["id"]
    /\ Cardinality(DOMAIN objects) <= next_id

\* C6: a destroy command bound to the kind and id of a live entity removes
\* its key, so that a following show of the same kind and id prints exactly
\* "** no instance found **"; an id that was never handed out is not found.
C6_DestroyRemoves ==
    [][/\ \A j \in (next_id + 1)..Len(Uuid) :
             \A kind \in MODELS : ~Live(StrV(kind), StrV(Uuid[j]))
       /\ (/\ Executes
           /\ executed'.class = "destroy"
           /\ Live(executed'.slots[1], executed'.slots[2]))
             => /\ _get_obj_key(executed'.slots[1], executed'.slots[2])
                       \notin DOMAIN objects'
                /\ ShowCommand_execute(
                       [objects |-> objects', doc |-> doc', out |-> <<>>,
                        exc |-> ""], executed'.slots).out
                       = <<Diag(NoInstanceFound)>>]_vars

\* C7: no exception leaves execute().
C7_ExecuteNeverRaises ==
    executed.class # "" => (raised = "" /\ pc # "crashed")

\* C8: updating the attribute age of an entity whose age is the number 30
\* with the text "22" leaves age = 22 (a number), and with the text "abc"
\* leaves age = 30.
C8_CoercionSafety ==
    [][\A kind \in MODELS, id \in InIds :
          LET target == _get_obj_key(StrV(kind), StrV(id))
              slots == executed'.slots
          IN (/\ Executes
              /\ executed'.class = "update_with_key_value_pair"
              /\ Live(slots[1], slots[2])
              /\ slots[1] = StrV(kind)
              /\ objects[_get_obj_key(slots[1], slots[2])].f["id"] = StrV(id)
              /\ target \in DOMAIN objects
              /\ objects[target].f["age"] = IntV(30)
              /\ slots[3] = StrV("age")
              /\ slots[4] \in {StrV("22"), StrV("abc")})
                => /\ target \in DOMAIN objects'
                   /\ objects'[target].f["age"] =
                          IF slots[4] = StrV("22") THEN IntV(22) ELSE IntV(30)
       ]_vars
\* an update of age = 30 with "22" has been applied
C8_Witness ==
    /\ pc = "postcmd"
    /\ executed.class = "update_with_key_value_pair"
    /\ executed.slots[3] = StrV("age")
    /\ executed.slots[4] = StrV("22")
    /\ Live(executed.slots[1], executed.slots[2])
    /\ objects[_get_obj_key(executed.slots[1], executed.slots[2])].f["age"]
           = IntV(22)

\* the first precondition, in the fixed order, that the slots of a command
\* do not meet ("" when they meet all that the command needs); the class
\* name is optional for `all`
FirstFailing(class, slots) ==
    IF ~Truthy(slots[1])
    THEN IF class = "all" THEN "" ELSE ClassNameMissing
    ELSE IF slots[1].t # "str" \/ slots[1].s \notin MODELS
    THEN ClassDoesNotExist
    ELSE IF Len(slots) < 2 THEN ""
    ELSE IF ~Truthy(slots[2]) THEN InstanceIdMissing
    ELSE IF ~Live(slots[1], slots[2]) THEN NoInstanceFound
    ELSE IF class # "update_with_key_value_pair" THEN ""
    ELSE IF ~Truthy(slots[3]) THEN AttributeNameMissing
    ELSE IF ~Truthy(slots[4]) THEN ValueMissing
    ELSE ""

\* C9: a command whose slots fail a precondition prints the diagnostic of
\* the first failing one, and nothing else, and returns with the store and
\* the document unchanged.
C9_FirstFailingPrecondition ==
    [][(Executes /\ FirstFailing(executed'.class, executed'.slots) # "")
          => /\ out' = <<Diag(FirstFailing(executed'.class, executed'.slots))>>
             /\ objects' = objects
             /\ doc' = doc
             /\ raised' = ""]_vars
\* an update with an attribute name and no value has reported it
C9_Witness ==
    /\ pc = "postcmd"
    /\ executed.class = "update_with_key_value_pair"
    /\ Live(executed.slots[1], executed.slots[2])
    /\ Truthy(executed.slots[3])
    /\ out = <<Diag(ValueMissing)>>

\* the command executed in this step creates, destroys or updates an entity
Mutating ==
    /\ Executes
    /\ pc' = "postcmd"
    /\ \/ executed'.class = "create" /\ CreateCommand_creates(executed'.slots)
       \/ /\ executed'.class \in {"destroy", "update_with_key_value_pair",
                                  "update_with_dict"}
          /\ FirstFailing(executed'.class, executed'.slots) = ""

\* C10: after a mutating command has completed, the document holds exactly
\* the live keys, each with the serialized entity.
C10_DocumentIsTheStore ==
    [][Mutating
          => /\ doc'.state = "written"
             /\ DOMAIN doc'.m = DOMAIN objects'
             /\ \A k \in DOMAIN objects' : doc'.m[k] = to_dict(objects'[k])
      ]_vars
\* a destroy has completed while another entity is live
C10_Witness ==
    /\ pc = "postcmd"
    /\ executed.class = "destroy"
    /\ Truthy(executed.slots[2])
    /\ ~Live(executed.slots[1], executed.slots[2])
    /\ out = <<>>
    /\ objects # <<>>

(***************************************************************************)
(* Properties of the registry (StorageSpec).                                *)
(***************************************************************************)
\* the step in which a running process makes the call name(...)
Calls(name) ==
    pc = "ready" /\ nlines' = nlines + 1 /\ executed'.class = name
\* the arguments of that call
Arg(i) == executed'.slots[i]
KnownKind(model_name) == model_name.t = "str" /\ model_name.s \in MODELS

OnlyCreated(kind) ==
    /\ Cardinality(DOMAIN objects) = next_id
    /\ \A k \in DOMAIN objects :
          /\ k.id \in {Uuid[j] : j \in 1..next_id}
          /\ objects[k].cls = kind

C13_ShellCountCounts ==
    [][(/\ pc = "onecmd"
        /\ line.form = "shell"
        /\ line.cmd = "count"
        /\ Len(line.args) >= 1
        /\ KnownKind(line.args[1]))
          => /\ executed'.class = "count"
             /\ out' = <<OutLine("count", "",
                                 Cardinality({k \in DOMAIN objects :
                                                 k.kind = line.args[1].s}),
                                 {})>>]_vars

\* C14: the shell line `update <Kind> <id> {'age':30}` on a live entity
\* executes the dictionary variant of update and leaves age = 30 in the
\* entity, as `<Kind>.update("<id>", {'age': 30})` does.
C14_ShellUpdateWithDict ==
    [][(/\ pc = "onecmd"
        /\ line.form = "shell"
        /\ line.cmd = "update"
        /\ Len(line.args) = 3
        /\ line.args[3] = StrV(DictWord)
        /\ Live(line.args[1], line.args[2]))
          => /\ executed'.class = "update_with_dict"
             /\ _get_obj_key(line.args[1], line.args[2]) \in DOMAIN objects'
             /\ objects'[_get_obj_key(line.args[1], line.args[2])].f["age"]
                    = IntV(30)]_vars

NameThenAge ==
    DictV(<<Item(StrV("name"), StrV("abc")), Item(StrV("age"), StrV("abc"))>>)

\* C16: update_obj_attributes with {'name': 'abc', 'age': 'abc'} on an
\* entity whose age is the number 30 fails at the second item (int('abc'))
\* and leaves name = 'abc', the value of the first item, in the entity and
\* in the document, with age still 30.
C16_NoRollback ==
    [][\A kind \in MODELS, id \in InIds :
          LET key == _get_obj_key(StrV(kind), StrV(id)) IN
          (/\ Executes
           /\ executed'.class = "update_with_dict"
           /\ executed'.slots = <<StrV(kind), StrV(id), NameThenAge>>
           /\ key \in DOMAIN objects
           /\ objects[key].f["id"] = StrV(id)
           /\ objects[key].f["age"] = IntV(30)
           /\ objects[key].f["name"] # StrV("abc"))
             => /\ raised' = "ValueError"
                /\ key \in DOMAIN objects'
                /\ objects'[key].f["name"] = StrV("abc")
                /\ objects'[key].f["age"] = IntV(30)
                /\ doc'.state = "written"
                /\ doc'.m[key].f["name"] = StrV("abc")]_vars
\* the second item of the dict has failed after the first was applied
C16_Witness ==
    /\ pc = "crashed"
    /\ raised = "ValueError"
    /\ executed.class = "update_with_dict"
    /\ executed.slots[3] = NameThenAge
    /\ Live(executed.slots[1], executed.slots[2])
    /\ objects[_get_obj_key(executed.slots[1], executed.slots[2])].f["name"]
           = StrV("abc")
    /\ doc.m[_get_obj_key(executed.slots[1], executed.slots[2])].f["name"]
           = StrV("abc")

(***************************************************************************)
(* Properties of the registry (StorageSpec), continued.                     *)
(***************************************************************************)
\* the step in which a starting process reloads the document
Reloads == pc = "start" /\ executed'.class = "reload"

\* C17: reload of a missing document or of one that is not JSON raises
\* nothing, prints nothing and leaves the process running with an empty
\* store.
C17_LoadSwallowsErrors ==
    [][(Reloads /\ doc.state \in {"missing", "malformed"})
          => /\ raised' = ""
             /\ pc' = "ready"
             /\ out' = <<>>
             /\ objects' = <<>>
             /\ doc' = doc]_vars
\* a process has started from a document that is not JSON
C17_Witness ==
    /\ pc = "ready"
    /\ executed.class = "reload"
    /\ doc.state = "malformed"
    /\ objects = <<>>
    /\ raised = ""

\* C18: after reload the store has a key for exactly the records of the
\* document whose __class__ is a known Kind, every key maps to an entity of a
\* known Kind, and a save() of that store succeeds.
C18_LoadDropsUnresolved ==
    [][(Reloads /\ doc.state = "written")
          => /\ DOMAIN objects' =
                    {k \in DOMAIN doc.m : doc.m[k].cls \in MODELS}
             /\ \A k \in DOMAIN objects' : objects'[k].cls \in MODELS
             /\ save([objects |-> objects', doc |-> doc', out |-> <<>>,
                      exc |-> ""]).exc = ""]_vars

\* the store of a new process that reloads the document
Loaded == reload([objects |-> <<>>, doc |-> doc, out |-> <<>>, exc |-> ""])

\* C19: after save() has written the store, a load of the document gives a
\* store with the same keys and, under each key, an entity of the same Kind
\* with the same id, timestamps and other fields.
C19_RoundTrip ==
    (pc = "ready" /\ executed.class = "save")
        => /\ Loaded.exc = ""
           /\ DOMAIN Loaded.objects = DOMAIN objects
           /\ \A k \in DOMAIN objects :
                 /\ Loaded.objects[k].cls = objects[k].cls
                 /\ \A a \in FieldNames :
                       Loaded.objects[k].f[a] = objects[k].f[a]

(***************************************************************************)
(* Properties of the command loop (Spec), continued.                        *)
(***************************************************************************)
\* C20: no step decreases the updated_at of an entity, and every step that
\* changes an entity of the store (an update that is applied) leaves its
\* updated_at later than it was.
C20_UpdatedAtBumped ==
    [][\A k \in DOMAIN objects \cap DOMAIN objects' :
          /\ objects'[k].f["updated_at"].n >= objects[k].f["updated_at"].n
          /\ objects'[k] # objects[k]
                => objects'[k].f["updated_at"].n
                       > objects[k].f["updated_at"].n]_vars

\* the ids handed out so far
HandedOut == {Uuid[j] : j \in 1..next_id}

\* C21: a create command bound to a known Kind prints an id X that was not
\* handed out before and is in no key of the store, adds the key <Kind>.X
\* and no other, leaves every other entry as it was, writes the document
\* with the whole store, and a following `show <Kind> X` prints the string
\* form of an entity whose id is X.
C21_CreateThenShow ==
    [][(/\ Executes
        /\ executed'.class = "create"
        /\ KnownKind(executed'.slots[1]))
          => \E X \in {Uuid[j] : j \in 1..Len(Uuid)} :
                LET key == _get_obj_key(executed'.slots[1], StrV(X))
                    shown == ShowCommand_execute(
                                 [objects |-> objects', doc |-> doc',
                                  out |-> <<>>, exc |-> ""],
                                 <<executed'.slots[1], StrV(X)>>)
                IN /\ out' = <<OutLine("id", X, 0, {})>>
                   /\ X \notin HandedOut
                   /\ X \notin {k.id : k \in DOMAIN objects}
                   /\ DOMAIN objects' = DOMAIN objects \cup {key}
                   /\ key \notin DOMAIN objects
                   /\ \A k \in DOMAIN objects : objects'[k] = objects[k]
                   /\ objects'[key].cls = executed'.slots[1].s
                   /\ raised' = ""
                   /\ doc'.state = "written"
                   /\ DOMAIN doc'.m = DOMAIN objects'
                   /\ \A k \in DOMAIN objects' :
                         doc'.m[k] = json_dump(to_dict(objects'[k]))
                   /\ Len(shown.out) = 1
                   /\ shown.out[1].t = "obj"
                   /\ \A o \in shown.out[1].e : o.f["id"] = StrV(X)
                   /\ shown.out[1].e # {}]_vars
\* a second entity has been created next to the first
C21_Witness ==
    /\ pc = "postcmd"
    /\ executed.class = "create"
    /\ Len(out) = 1
    /\ out[1].t = "id"
    /\ Cardinality(DOMAIN objects) = 2
    /\ _get_obj_key(executed.slots[1], StrV(out[1].s)) \in DOMAIN objects
    /\ doc.state = "written"
    /\ DOMAIN doc.m = DOMAIN objects

\* the coercion rule accepts the text value for the attribute name of obj:
\* the attribute is new, or it is a data attribute without a leading
\* underscore whose type can be made of the text
Accepts(obj, name, value) ==
    \/ ~hasattr(obj, name.s)
    \/ /\ ~startswith_underscore(name.s)
       /\ ~callable(getattr(obj, name.s))
       /\ \/ getattr(obj, name.s).t = "str"
          \/ getattr(obj, name.s).t = "int" /\ value.s \in Numerals

\* C22: after `update <Kind> <id> <attr> <value>`, in either form, on a live
\* entity, with a value the coercion rule accepts, a following show of that
\* Kind and id prints an entity that has the attribute with that value; the
\* update changes that field (and updated_at) of that entity only: every
\* other field, every other entity and the set of keys are as before.
C22_UpdateThenShow ==
    [][LET slots == executed'.slots
           key == _get_obj_key(slots[1], slots[2])
           shown == ShowCommand_execute(
                        [objects |-> objects', doc |-> doc', out |-> <<>>,
                         exc |-> ""], <<slots[1], slots[2]>>)
       IN (/\ Executes
           /\ executed'.class = "update_with_key_value_pair"
           /\ Live(slots[1], slots[2])
           /\ slots[3].t = "str" /\ Truthy(slots[3])
           /\ slots[4].t = "str" /\ Truthy(slots[4])
           /\ Accepts(objects[key], slots[3], slots[4]))
             => /\ DOMAIN objects' = DOMAIN objects
                /\ \A k \in DOMAIN objects \ {key} : objects'[k] = objects[k]
                /\ objects'[key].cls = objects[key].cls
                /\ \A a \in FieldNames \ {slots[3].s, "updated_at"} :
                      objects'[key].f[a] = objects[key].f[a]
                /\ Len(shown.out) = 1
                /\ shown.out[1].t = "obj"
                /\ shown.out[1].e # {}
                /\ \A o \in shown.out[1].e :
                      /\ hasattr(o, slots[3].s)
                      /\ str(o.f[slots[3].s]) = slots[4].s]_vars

(***************************************************************************)
(* Properties of the registry (StorageSpec), continued.                     *)
(***************************************************************************)
\* C23: new(obj) puts obj under the key <Kind>.<id> when obj is an entity of
\* a known Kind, leaving every other entry as it was, and leaves the store
\* as it was when obj is None or is not of a known Kind; it prints nothing,
\* raises nothing and does not write the document.
C23_Register ==
    [][Calls("new")
          => /\ raised' = ""
             /\ out' = <<>>
             /\ doc' = doc
             /\ IF Arg(1) # NoneObj /\ Arg(1).cls \in MODELS
                THEN LET key == _get_obj_key(StrV(Arg(1).cls), Arg(1).f["id"])
                     IN /\ DOMAIN objects' = DOMAIN objects \cup {key}
                        /\ objects'[key] = Arg(1)
                        /\ \A k \in DOMAIN objects \ {key} :
                              objects'[k] = objects[k]
                ELSE objects' = objects]_vars
\* a User has been registered next to the entities of the store
C23_Witness ==
    /\ pc = "ready"
    /\ executed.class = "new"
    /\ executed.slots[1].cls = "User"
    /\ _get_obj_key(StrV("User"), executed.slots[1].f["id"]) \in DOMAIN objects
    /\ objects[_get_obj_key(StrV("User"), executed.slots[1].f["id"])]
           = executed.slots[1]
    /\ Cardinality(DOMAIN objects) >= 2

(***************************************************************************)
(* Properties of the command loop (Spec), continued.                        *)
(***************************************************************************)
\* the line is not a call of a known command: its first word is not a
\* command, or it is a dotted call of an unknown method or with an argument
\* list that is not a valid literal
NotACommand(l) ==
    \/ l.form = "shell" /\ l.cmd \notin airbnb_commands
    \/ l.form = "dotted" /\ l.cmd \notin airbnb_commands
    \/ l.form \in {"badliteral", "unhashable"}

\* C24: a line that is not a call of a known command binds no tokens when
\* it is read, and is then answered with "*** Unknown syntax" as its last
\* output: nothing is raised, no command is bound or executed, and the store
\* and the document are unchanged.
C24_UnknownFallsBack ==
    [][/\ (pc = "read" /\ NotACommand(line'))
             => /\ tokens' = tokens
                /\ current_update' = current_update
                /\ objects' = objects
                /\ doc' = doc
       /\ (pc = "onecmd" /\ NotACommand(line))
             => /\ raised' = ""
                /\ pc' = "postcmd"
                /\ out' # <<>>
                /\ out'[Len(out')] = Diag(UnknownSyntax)
                /\ tokens' = tokens
                /\ current_update' = current_update
                /\ executed'.class = ""
                /\ objects' = objects
                /\ doc' = doc]_vars

\* the tokenization of the line being handled was reported
Reported == out # <<>> /\ out[1] = Diag("No closing quotation")

\* C25: a line with an unbalanced quote is reported when it is parsed and no
\* step of its handling (precmd, the empty command it is replaced by,
\* postcmd) binds a token, executes a command, raises, or changes the store
\* or the document.
C25_BadQuoteIsNoOp ==
    [][((pc = "read" /\ Reported') \/ (pc \in {"onecmd", "postcmd"} /\ Reported))
          => /\ tokens' = tokens
             /\ current_update' = current_update
             /\ executed'.class = ""
             /\ raised' = ""
             /\ pc' \in {"onecmd", "postcmd", "read"}
             /\ pc = "read" => line' = EmptyLine
             /\ objects' = objects
             /\ doc' = doc]_vars
\* such a line has been handled while the store holds an entity
C25_Witness ==
    /\ pc = "postcmd"
    /\ Reported
    /\ line = EmptyLine
    /\ executed.class = ""
    /\ objects # <<>>

\* the update variant that the tokens toks select
Selected(toks) ==
    IF Len(toks) >= 3 /\ toks[3].t = "dict" THEN "update_with_dict"
    ELSE "update_with_key_value_pair"

\* C26: the update variant that executes for a line is the one its own
\* tokens select: the dictionary form for at least 3 tokens with a dict as
\* the third, the key/value form for at least 4 tokens with text as the
\* third, and the key/value form when neither matches, whatever earlier
\* lines selected.
C26_VariantFromCurrentTokens ==
    [][(/\ pc = "onecmd"
        /\ line.form \in {"shell", "dotted"}
        /\ line.cmd = "update")
          => executed'.class = Selected(Supplied)]_vars

\* every token slot of both update variants is unset
UpdateSlotsUnset(T) ==
    \A c \in {"update_with_key_value_pair", "update_with_dict"} :
       \A i \in DOMAIN T[c] : T[c][i] = None

\* C27: binding the tokens of an `update` line leaves the update command in
\* the state of the variant those tokens select, and the reset at the end of
\* the line leaves it unbound: no variant is selected and every token slot
\* of the key/value variant and of the dictionary variant is unset.
C27_UpdateStateMachine ==
    [][/\ (pc = "read" /\ line'.form = "shell" /\ line'.cmd = "update")
             => UpdateCommand_target(
                    [tokens |-> tokens', current_update |-> current_update'])
                    = Selected(line'.args)
       /\ (pc = "postcmd" /\ current_cmd = "update")
             => /\ current_update' = ""
                /\ UpdateSlotsUnset(tokens')]_vars

(***************************************************************************)
(* Properties of the updates of one entity (UpdateSpec).                    *)
(***************************************************************************)
\* C28: _update_obj_attribute on an attribute the entity has returns without
\* raising and leaves the entity, every field of it, as it was when the
\* name starts with an underscore, or the attribute is callable, or the
\* value is neither text nor of the type of the attribute: no field is
\* created, deleted or retyped.
C28_RefusedUpdates ==
    [][(/\ Calls("_update_obj_attribute")
        /\ Arg(1).t = "str"
        /\ \/ Arg(1).s \in {"__class__", "__dict__"}
           \/ Arg(1).s \in {"save", "to_dict"}
           \/ /\ Arg(1).s \in FieldNames
              /\ objects[UKey].f[Arg(1).s] # Absent
              /\ Arg(2).t \notin {"str", objects[UKey].f[Arg(1).s].t})
          => /\ objects' = objects
             /\ raised' = ""
             /\ doc' = doc]_vars
\* a dict has been refused for the attribute age, which stays the number 30
C28_Witness ==
    /\ pc = "ready"
    /\ executed.class = "_update_obj_attribute"
    /\ executed.slots[1] = StrV("age")
    /\ executed.slots[2].t = "dict"
    /\ objects[UKey].f["age"] = IntV(30)
    /\ raised = ""

\* C29: _update_obj_attribute on an attribute the entity does not have
\* creates it with the value as it is, and no step changes the type of an
\* attribute the entity has, or removes it.
C29_TypeStability ==
    [][/\ (/\ Calls("_update_obj_attribute")
           /\ Arg(1).t = "str"
           /\ Arg(1).s \in FieldNames
           /\ objects[UKey].f[Arg(1).s] = Absent)
             => /\ objects'[UKey].f[Arg(1).s] = Arg(2)
                /\ raised' = ""
       /\ \A k \in DOMAIN objects :
             /\ k \in DOMAIN objects'
             /\ \A a \in FieldNames :
                   objects[k].f[a] # Absent
                       => objects'[k].f[a].t = objects[k].f[a].t]_vars
\* the text "22" has been stored as a number in the attribute age
C29_Witness ==
    /\ pc = "ready"
    /\ executed.class = "_update_obj_attribute"
    /\ executed.slots = <<StrV("age"), StrV("22")>>
    /\ objects[UKey].f["age"] = IntV(22)

\* update_obj_attribute once for every item of kwargs, in order, each one
\* attempted whatever became of the items before it
RECURSIVE AttemptEach(_, _, _, _)
AttemptEach(S, model_name, _id, kwargs) ==
    IF kwargs = <<>> THEN S
    ELSE AttemptEach(
             update_obj_attribute([S EXCEPT !.exc = ""], model_name, _id,
                                  Head(kwargs).k, Head(kwargs).v),
             model_name, _id, Tail(kwargs))

\* C30: update_obj_attributes(kind, id, **kwargs) leaves the store, the
\* document and the output that one update_obj_attribute per item of
\* kwargs, in the order of the dict, leaves: an item that is refused or that
\* fails does not keep the items after it from being applied.
C30_EveryEntryAttempted ==
    [][Calls("update_obj_attributes")
          => LET E == AttemptEach(S_call, Arg(1), Arg(2), Arg(3).d)
             IN /\ objects' = E.objects
                /\ doc' = E.doc
                /\ out' = E.out]_vars

\* C31: update_obj_attribute on a live entity with an empty attribute name
\* or an empty value (no text, or None) returns without printing or raising
\* and leaves the store and the document as they were; the number 0 is a
\* value, not an empty one: it is stored in an attribute that is new or
\* holds a number.
C31_EmptyNameOrValue ==
    [][(Calls("update_obj_attribute") /\ Live(Arg(1), Arg(2)))
          => LET key == _get_obj_key(Arg(1), Arg(2)) IN
             /\ (Arg(3) = StrV("") \/ Arg(4) \in {StrV(""), None})
                   => /\ objects' = objects
                      /\ doc' = doc
                      /\ out' = <<>>
                      /\ raised' = ""
             /\ (/\ Arg(3) = StrV("age")
                 /\ Arg(4) = IntV(0)
                 /\ objects[key].f["age"].t \in {"absent", "int"})
                   => objects'[key].f["age"] = IntV(0)]_vars

(***************************************************************************)
(* Properties of two command objects of a class (CommandsSpec).             *)
(***************************************************************************)
\* C32: the slots that execute() sees on a command object are the ones that
\* the calls of set_tokens and reset_tokens on that same object left: no
\* call on the other object of the class changes them.
C32_TokensPerObject ==
    [][(pc = "commands" /\ executed'.class # "")
          => executed'.slots = owned.slots[owned'.who][executed'.class]]_vars

(***************************************************************************)
(* Properties of the command loop (Spec), continued.                        *)
(***************************************************************************)
\* the line is a show, all or count command, in shell or dotted form
ReadOnlyLine(l) == l.cmd \in {"show", "all", "count"}

\* C33: no step of the handling of a show, all or count line, whether it
\* prints its result or a diagnostic, changes the store or the document.
C33_ReadOnlyCommands ==
    [][(ReadOnlyLine(line) \/ ReadOnlyLine(line'))
          => (objects' = objects /\ doc' = doc)]_vars

\* a show that printed its entity
C33_Witness ==
    /\ ReadOnlyLine(line)
    /\ executed.class = "show"
    /\ executed.slots[2].t = "str"
    /\ Live(executed.slots[1], executed.slots[2])
    /\ out # <<>>
    /\ out[1].t = "obj"

(***************************************************************************)
(* Properties of the storage calls (StorageSpec), continued.                *)
(***************************************************************************)
\* the sum of count(kind) over a set of kinds
RECURSIVE SumOfCounts(_)
SumOfCounts(kinds) ==
    IF kinds = {} THEN 0
    ELSE LET kind == CHOOSE x \in kinds : TRUE IN
         count(S_call, StrV(kind)).n + SumOfCounts(kinds \ {kind})

\* C34: in every state, count(kind) is the number of entries of
\* find_all(kind) for every known kind, and the counts of all known kinds
\* add up to the number of entries of find_all().
C34_CountIsListLength ==
    /\ \A kind \in MODELS :
          count(S_call, StrV(kind)).n = find_all_len(S_call, StrV(kind))
    /\ SumOfCounts(MODELS) = find_all_len(S_call, StrV(""))

(***************************************************************************)
(* Properties of the command loop (Spec), continued.                        *)
(***************************************************************************)
\* C35: a destroy command whose kind and id tokens are the key of a live
\* entity removes that key and no other, whatever updates were applied to
\* the entity before.
C35_DestroyRemovesItsKey ==
    [][(/\ Executes
        /\ executed'.class = "destroy"
        /\ Live(executed'.slots[1], executed'.slots[2]))
          => DOMAIN objects' =
                 DOMAIN objects
                     \ {_get_obj_key(executed'.slots[1],
                                     executed'.slots[2])}]_vars

\* the line being handled is empty or holds only white space
EmptyInput == line.form = "empty" /\ out = <<>>

\* C36: no step of the handling of an empty or blank line binds a token,
\* executes a command, prints, raises or changes the store or the document.
C36_EmptyLineIsNoOp ==
    [][((pc = "read" /\ EmptyInput') \/ (pc # "read" /\ EmptyInput))
          => /\ tokens' = tokens
             /\ current_update' = current_update
             /\ current_cmd' = ""
             /\ executed' = NoExec
             /\ objects' = objects
             /\ doc' = doc
             /\ out' = <<>>
             /\ raised' = raised]_vars

\* an empty line has been handled after a create
C36_Witness ==
    /\ pc = "postcmd"
    /\ EmptyInput
    /\ objects # <<>>

(***************************************************************************)
(* Properties of the command history (HistorySpec).                         *)
(***************************************************************************)
\* C37: once load_history has run, and after every add_history, the history
\* holds the last lines written or typed, in their order, and at most
\* __MAX_HIS of them: none is dropped before the history is full.
C37_BoundedFifo ==
    pc \in {"cmdloop", "exited"}
        => /\ Len(history) <= MAX_HIS
           /\ Len(history) = (IF nlines < MAX_HIS THEN nlines ELSE MAX_HIS)
           /\ \A i \in 1..Len(history) :
                 history[i] = nlines - Len(history) + i

\* line 101 has been typed into an empty history and line 1 was dropped
C37_Witness ==
    /\ pc = "cmdloop"
    /\ history_file = NoHistoryFile
    /\ nlines = MAX_HIS + 1
    /\ Len(history) = MAX_HIS
    /\ history[1] = 2
    /\ history[MAX_HIS] = MAX_HIS + 1

====
